---------------------------- MODULE Spec2Model ----------------------------
(***************************************************************************)
(* A model of src/src/object_stream.rs (lopdf): the object stream builder  *)
(* (add_object, build_stream_content, to_stream_object), the decoder       *)
(* (ObjectStream::new) and the compressibility analyzer                    *)
(* (find_all_non_compressible_objects, can_be_compressed).                 *)
(*                                                                         *)
(* Bytes are numbers 0..255, byte strings are sequences of bytes.  An      *)
(* ObjectId is a pair <<object number, generation>>.  An Object is a       *)
(* record with a field kind naming its variant.  A dictionary is a         *)
(* function from key names to Objects.                                     *)
(***************************************************************************)
EXTENDS Integers, Sequences, FiniteSets, TLC

(***************************************************************************)
(* Bounds of the model.                                                    *)
(***************************************************************************)
MaxCalls == 3

MaxIndexTokens == 4

(***************************************************************************)
(* Objects (crate::Object).                                                *)
(***************************************************************************)
Null == [kind |-> "Null"]

Boolean(b) == [kind |-> "Boolean", bool |-> b]

Integer(n) == [kind |-> "Integer", int |-> n]

Name(bytes) == [kind |-> "Name", name |-> bytes]

Reference(id) == [kind |-> "Reference", id |-> id]

Array(items) == [kind |-> "Array", items |-> items]

Dictionary(dict) == [kind |-> "Dictionary", dict |-> dict]

StreamObject(dict, content) == [kind |-> "Stream", dict |-> dict, content |-> content]

EmptyDict == [k \in {} |-> Null]

\* ASCII text used by the model, as bytes.
SP == <<32>>

Digit(d) == 48 + d

IsDigit(b) == b >= 48 /\ b <= 57

\* char::is_whitespace restricted to one-byte characters.
IsWhitespace(b) == b \in {9, 10, 11, 12, 13, 32}

TextNull == <<110, 117, 108, 108>>

TextTrue == <<116, 114, 117, 101>>

TextFalse == <<102, 97, 108, 115, 101>>

TextObjStm == <<79, 98, 106, 83, 116, 109>>

TextFlateDecode == <<70, 108, 97, 116, 101, 68, 101, 99, 111, 100, 101>>

TextPage == <<80, 97, 103, 101>>

TextPages == <<80, 97, 103, 101, 115>>

TextCatalog == <<67, 97, 116, 97, 108, 111, 103>>

TextXRef == <<88, 82, 101, 102>>

TextFont == <<70, 111, 110, 116>>

\* format!("{}", n) of an unsigned number.
RECURSIVE Decimal(_)
Decimal(n) == IF n < 10 THEN <<Digit(n)>> ELSE Decimal(n \div 10) \o <<Digit(n % 10)>>

HasPrefix(bytes, pos, prefix) ==
    /\ pos + Len(prefix) - 1 <= Len(bytes)
    /\ SubSeq(bytes, pos, pos + Len(prefix) - 1) = prefix

(***************************************************************************)
(* The canonical object writer (crate::writer::Writer::write_object), on   *)
(* the variants an object stream may hold.                                 *)
(***************************************************************************)
RECURSIVE WriteObject(_)
RECURSIVE WriteItems(_, _)
WriteItems(items, i) ==
    IF i > Len(items) THEN <<>>
    ELSE (IF i > 1 THEN SP ELSE <<>>) \o WriteObject(items[i]) \o WriteItems(items, i + 1)

WriteObject(obj) ==
    CASE obj.kind = "Null" -> TextNull
      [] obj.kind = "Boolean" -> (IF obj.bool THEN TextTrue ELSE TextFalse)
      [] obj.kind = "Integer" ->
            (IF obj.int < 0 THEN <<45>> \o Decimal(0 - obj.int) ELSE Decimal(obj.int))
      [] obj.kind = "Name" -> <<47>> \o obj.name
      [] obj.kind = "Reference" -> Decimal(obj.id[1]) \o SP \o Decimal(obj.id[2]) \o SP \o <<82>>
      [] obj.kind = "Array" -> <<91>> \o WriteItems(obj.items, 1) \o <<93>>

(***************************************************************************)
(* The direct-object parser (crate::parser::direct_object): parses one     *)
(* object starting at position pos of bytes.  The result is                *)
(* [ok, obj, next]: next is the position after the object.                 *)
(***************************************************************************)
ParseFail == [ok |-> FALSE, obj |-> Null, next |-> 0]

ParseOk(obj, next) == [ok |-> TRUE, obj |-> obj, next |-> next]

\* The position after the run of digits starting at pos.
RECURSIVE DigitsEnd(_, _)
DigitsEnd(bytes, pos) ==
    IF pos <= Len(bytes) /\ IsDigit(bytes[pos]) THEN DigitsEnd(bytes, pos + 1) ELSE pos

RECURSIVE DigitsValue(_, _, _, _)
DigitsValue(bytes, pos, end, acc) ==
    IF pos >= end THEN acc ELSE DigitsValue(bytes, pos + 1, end, acc * 10 + (bytes[pos] - 48))

\* The position after the run of regular (name) characters starting at pos.
RECURSIVE NameEnd(_, _)
NameEnd(bytes, pos) ==
    IF pos <= Len(bytes) /\ ~IsWhitespace(bytes[pos]) /\ bytes[pos] \notin {40, 41, 47, 60, 62, 91, 93}
    THEN NameEnd(bytes, pos + 1) ELSE pos

RECURSIVE SkipWhitespace(_, _)
SkipWhitespace(bytes, pos) ==
    IF pos <= Len(bytes) /\ IsWhitespace(bytes[pos]) THEN SkipWhitespace(bytes, pos + 1) ELSE pos

ParseReference(bytes, pos) ==
    LET e1 == DigitsEnd(bytes, pos)
        e2 == DigitsEnd(bytes, e1 + 1)
    IN  IF /\ e1 > pos
           /\ HasPrefix(bytes, e1, SP)
           /\ e2 > e1 + 1
           /\ HasPrefix(bytes, e2, SP \o <<82>>)
        THEN ParseOk(Reference(<<DigitsValue(bytes, pos, e1, 0), DigitsValue(bytes, e1 + 1, e2, 0)>>), e2 + 2)
        ELSE ParseFail

ParseInteger(bytes, pos) ==
    LET signed == pos <= Len(bytes) /\ bytes[pos] \in {43, 45}
        start == IF signed THEN pos + 1 ELSE pos
        end == DigitsEnd(bytes, start)
        value == DigitsValue(bytes, start, end, 0)
    IN  IF end > start
        THEN ParseOk(Integer(IF signed /\ bytes[pos] = 45 THEN 0 - value ELSE value), end)
        ELSE ParseFail

RECURSIVE DirectObject(_, _)
RECURSIVE ParseArrayItems(_, _, _)
ParseArrayItems(bytes, pos, items) ==
    LET p == SkipWhitespace(bytes, pos)
    IN  IF p > Len(bytes) THEN ParseFail
        ELSE IF bytes[p] = 93 THEN ParseOk(Array(items), p + 1)
        ELSE LET r == DirectObject(bytes, p)
             IN  IF r.ok THEN ParseArrayItems(bytes, r.next, Append(items, r.obj)) ELSE ParseFail

DirectObject(bytes, pos) ==
    IF pos > Len(bytes) THEN ParseFail
    ELSE IF HasPrefix(bytes, pos, TextNull) THEN ParseOk(Null, pos + 4)
    ELSE IF HasPrefix(bytes, pos, TextTrue) THEN ParseOk(Boolean(TRUE), pos + 4)
    ELSE IF HasPrefix(bytes, pos, TextFalse) THEN ParseOk(Boolean(FALSE), pos + 5)
    ELSE IF ParseReference(bytes, pos).ok THEN ParseReference(bytes, pos)
    ELSE IF ParseInteger(bytes, pos).ok THEN ParseInteger(bytes, pos)
    ELSE IF bytes[pos] = 47 THEN
        ParseOk(Name(SubSeq(bytes, pos + 1, NameEnd(bytes, pos + 1) - 1)), NameEnd(bytes, pos + 1))
    ELSE IF bytes[pos] = 91 THEN ParseArrayItems(bytes, pos + 1, <<>>)
    ELSE ParseFail

(***************************************************************************)
(* The deflate compressor (flate2::write::ZlibEncoder) and its inverse.    *)
(* A zlib stream is a two-byte header, a deflate body and the Adler-32 of  *)
(* the data.  The body is modelled as one stored block, a valid deflate    *)
(* encoding of the data at every effort level; the header records the      *)
(* effort level.                                                           *)
(***************************************************************************)
\* The two running sums of Adler-32 over the first n bytes.
RECURSIVE AdlerSums(_, _)
AdlerSums(data, n) ==
    IF n = 0 THEN <<1, 0>>
    ELSE LET prev == AdlerSums(data, n - 1)
             a == (prev[1] + data[n]) % 65521
         IN  <<a, (prev[2] + a) % 65521>>

Adler32(data) ==
    LET sums == AdlerSums(data, Len(data))
        a == sums[1]
        b == sums[2]
    IN  <<b \div 256, b % 256, a \div 256, a % 256>>

\* Compression::fast() / default() / best() as the FLG byte of the header.
ZlibFlag(compression) ==
    CASE compression = "none" -> 1
      [] compression = "fast" -> 94
      [] compression = "default" -> 156
      [] compression = "best" -> 218

StoredBlock(data) ==
    <<1, Len(data) % 256, Len(data) \div 256, 255 - (Len(data) % 256), 255 - (Len(data) \div 256)>> \o data

ZlibEncode(compression, data) == <<120, ZlibFlag(compression)>> \o StoredBlock(data) \o Adler32(data)

ZlibDecode(bytes) ==
    LET n == Len(bytes) - 11
        data == SubSeq(bytes, 8, 7 + n)
    IN  IF /\ n >= 0
           /\ bytes[1] = 120
           /\ bytes[2] \in {1, 94, 156, 218}
           /\ SubSeq(bytes, 3, 7) = SubSeq(StoredBlock(data), 1, 5)
           /\ SubSeq(bytes, 8 + n, 11 + n) = Adler32(data)
        THEN [ok |-> TRUE, data |-> data]
        ELSE [ok |-> FALSE, data |-> <<>>]

(***************************************************************************)
(* State.                                                                  *)
(*   Builder and container (ObjectStreamBuilder, ObjectStream):            *)
(*     phase              "builder", "container", "finalized", "decoded"   *)
(*     builder            the ObjectStreamBuilder's fields                 *)
(*     objects, max_objects, compression_level   the ObjectStream's fields *)
(*     op, arg, result    the last call, its argument and what it returned *)
(*     calls, accepted    add_object calls with a non-Stream object made,  *)
(*                        and those that returned Ok                       *)
(*     used               the ids passed by those calls                    *)
(*     raw                the content build_stream_content returned        *)
(*     stream             the Stream to_stream_object returned             *)
(*     decoded            what ObjectStream::new returned for that Stream  *)
(***************************************************************************)
VARIABLES phase, builder, objects, max_objects, compression_level,
          op, arg, result, calls, accepted, used, raw, stream, decoded

(***************************************************************************)
(*   Decoder (ObjectStream::new with the rayon feature):                   *)
(*     dpc        "start", "pairs" (the pairs are being decoded), "done"   *)
(*     input      the Stream passed to ObjectStream::new                   *)
(*     header     first_offset, numbers and the decompressed content       *)
(*     slots      per pair, whether it was decoded and what it yielded     *)
(*     order      the pairs in the order they were decoded                 *)
(*     dresult    what ObjectStream::new returned                          *)
(***************************************************************************)
VARIABLES dpc, input, header, slots, order, dresult

(***************************************************************************)
(*   Analyzer (can_be_compressed, find_all_non_compressible_objects):      *)
(*     apc               "phase1", "phase2", "returned" (the set was       *)
(*                       returned), "answered" (can_be_compressed returned)*)
(*     doc, trailer      the Document's objects and trailer                *)
(*     non_compressible  the set being built                               *)
(*     changed           the loop's flag                                   *)
(*     query, answer     can_be_compressed's id and what it returned       *)
(***************************************************************************)
VARIABLES apc, doc, trailer, non_compressible, changed, query, answer

bvars == <<phase, builder, objects, max_objects, compression_level,
           op, arg, result, calls, accepted, used, raw, stream, decoded>>

dvars == <<dpc, input, header, slots, order, dresult>>

avars == <<apc, doc, trailer, non_compressible, changed, query, answer>>

vars == <<bvars, dvars, avars>>

EmptyMap == [id \in {} |-> Null]

NoArg == [id |-> <<0, 0>>, obj |-> Null]

NoStream == [dict |-> EmptyDict, content |-> <<>>]

NoResult == [ok |-> FALSE, err |-> "none", objects |-> EmptyMap]

Ok(objs) == [ok |-> TRUE, err |-> "none", objects |-> objs]

Err(e) == [ok |-> FALSE, err |-> e, objects |-> EmptyMap]

\* BTreeMap::insert.
Insert(map, key, value) == [k \in DOMAIN map \cup {key} |-> IF k = key THEN value ELSE map[k]]

\* Dictionary::set.
DictSet(dict, key, value) == Insert(dict, key, value)

DictRemove(dict, key) == [k \in DOMAIN dict \ {key} |-> dict[k]]

\* The order of ObjectId, a pair (u32, u16).
IdLess(a, b) == a[1] < b[1] \/ (a[1] = b[1] /\ a[2] < b[2])

\* The keys of a map in ascending order.
RECURSIVE SortedIds(_)
SortedIds(ids) ==
    IF ids = {} THEN <<>>
    ELSE LET least == CHOOSE a \in ids : \A b \in ids \ {a} : IdLess(a, b)
         IN  <<least>> \o SortedIds(ids \ {least})

(***************************************************************************)
(* The inputs the calls are made with.                                     *)
(***************************************************************************)
BuilderIds == {<<1, 0>>, <<1, 1>>, <<12, 0>>}

StoredObjects == {Null, Reference(<<2, 0>>), Array(<<Integer(-3), Name(<<65>>)>>)}

StreamArgument == StreamObject(EmptyDict, <<120>>)

MaxObjectsChoices == {0, 1, 2}

CompressionLevels == {0, 2, 9}

(***************************************************************************)
(* ObjectStream::builder and ObjectStreamBuilder.                          *)
(***************************************************************************)
DefaultBuilder == [max_objects |-> 100, compression_level |-> 6]

SetMaxObjects(max) ==
    /\ phase = "builder"
    /\ builder' = [builder EXCEPT !.max_objects = max]
    /\ op' = "max_objects"
    /\ UNCHANGED <<phase, objects, max_objects, compression_level, arg, result,
                   calls, accepted, used, raw, stream, decoded, dvars, avars>>

SetCompressionLevel(level) ==
    /\ phase = "builder"
    /\ builder' = [builder EXCEPT !.compression_level = level]
    /\ op' = "compression_level"
    /\ UNCHANGED <<phase, objects, max_objects, compression_level, arg, result,
                   calls, accepted, used, raw, stream, decoded, dvars, avars>>

Build ==
    /\ phase = "builder"
    /\ phase' = "container"
    /\ objects' = EmptyMap
    /\ max_objects' = builder.max_objects
    /\ compression_level' = builder.compression_level
    /\ op' = "build"
    /\ UNCHANGED <<builder, arg, result, calls, accepted, used, raw, stream, decoded, dvars, avars>>

\* ObjectStream::object_count.
object_count == Cardinality(DOMAIN objects)

(***************************************************************************)
(* ObjectStream::add_object.  The returned Result and the container after  *)
(* the call.                                                               *)
(***************************************************************************)
\* add_object with the capacity test off by one.
AddObjectResult_OffByOne(objs, max, id, obj) ==
    IF obj.kind = "Stream" THEN [result |-> "ErrStream", objects |-> objs]
    ELSE IF Cardinality(DOMAIN objs) > max THEN [result |-> "ErrCapacity", objects |-> objs]
    ELSE [result |-> "Ok", objects |-> Insert(objs, id, obj)]

\* add_object inserting before it tests the capacity.
AddObjectResult_InsertFirst(objs, max, id, obj) ==
    IF obj.kind = "Stream" THEN [result |-> "ErrStream", objects |-> objs]
    ELSE IF Cardinality(DOMAIN Insert(objs, id, obj)) > max
        THEN [result |-> "ErrCapacity", objects |-> Insert(objs, id, obj)]
    ELSE [result |-> "Ok", objects |-> Insert(objs, id, obj)]

AddObjectResult(objs, max, id, obj) ==
    IF obj.kind = "Stream" THEN [result |-> "ErrStream", objects |-> objs]
    ELSE IF Cardinality(DOMAIN objs) >= max THEN [result |-> "ErrCapacity", objects |-> objs]
    ELSE [result |-> "Ok", objects |-> Insert(objs, id, obj)]

AddObject(id, obj) ==
    /\ phase = "container"
    /\ obj.kind # "Stream" => calls < MaxCalls
    /\ LET r == AddObjectResult(objects, max_objects, id, obj)
       IN  /\ objects' = r.objects
           /\ result' = r.result
           /\ accepted' = IF r.result = "Ok" THEN accepted + 1 ELSE accepted
    /\ op' = "add_object"
    /\ arg' = [id |-> id, obj |-> obj]
    /\ calls' = IF obj.kind # "Stream" THEN calls + 1 ELSE calls
    /\ used' = IF obj.kind # "Stream" THEN used \cup {id} ELSE used
    /\ UNCHANGED <<phase, builder, max_objects, compression_level, raw, stream, decoded, dvars, avars>>

(***************************************************************************)
(* ObjectStream::build_stream_content.                                     *)
(***************************************************************************)
\* The loop over sorted_objects: the entries "num offset" from entry i on,
\* with current_offset the offset of entry i.
\* The loop without the separator's byte in current_offset.
RECURSIVE OffsetEntries_NoSeparator(_, _, _, _)
OffsetEntries_NoSeparator(objs, sorted, i, current_offset) ==
    IF i > Len(sorted) THEN <<>>
    ELSE <<Decimal(sorted[i][1]) \o SP \o Decimal(current_offset)>>
         \o OffsetEntries_NoSeparator(objs, sorted, i + 1, current_offset + Len(WriteObject(objs[sorted[i]])))

RECURSIVE OffsetEntries(_, _, _, _)
OffsetEntries(objs, sorted, i, current_offset) ==
    IF i > Len(sorted) THEN <<>>
    ELSE <<Decimal(sorted[i][1]) \o SP \o Decimal(current_offset)>>
         \o OffsetEntries(objs, sorted, i + 1, current_offset + Len(WriteObject(objs[sorted[i]])) + 1)

\* offset_entries.join(" ")
RECURSIVE Join(_, _)
Join(entries, i) ==
    IF i > Len(entries) THEN <<>>
    ELSE (IF i > 1 THEN SP ELSE <<>>) \o entries[i] \o Join(entries, i + 1)

OffsetTable(objs) == Join(OffsetEntries(objs, SortedIds(DOMAIN objs), 1, 0), 1) \o SP

\* The serialized objects, each followed by a space.
RECURSIVE Body(_, _, _)
Body(objs, sorted, i) ==
    IF i > Len(sorted) THEN <<>>
    ELSE WriteObject(objs[sorted[i]]) \o SP \o Body(objs, sorted, i + 1)

\* build_stream_content without the early return for no objects.
BuildStreamContent_NoEmptyCase(objs) == OffsetTable(objs) \o Body(objs, SortedIds(DOMAIN objs), 1)

BuildStreamContent(objs) ==
    IF DOMAIN objs = {} THEN <<>>
    ELSE OffsetTable(objs) \o Body(objs, SortedIds(DOMAIN objs), 1)

(***************************************************************************)
(* ObjectStream::to_stream_object.                                         *)
(***************************************************************************)
\* first_offset measured without the table's trailing space.
FirstOffset_NoTrailingSpace(objs) == Len(Join(OffsetEntries(objs, SortedIds(DOMAIN objs), 1, 0), 1))

\* The offset table built again by to_stream_object, and its length.
FirstOffset(objs) == Len(Join(OffsetEntries(objs, SortedIds(DOMAIN objs), 1, 0), 1) \o SP)

CompressionOf(level) ==
    IF level = 0 THEN "none"
    ELSE IF level >= 1 /\ level <= 3 THEN "fast"
    ELSE IF level >= 4 /\ level <= 6 THEN "default"
    ELSE "best"

StreamDict(objs) ==
    [k \in {"Type", "N", "First"} |->
        CASE k = "Type" -> Name(TextObjStm)
          [] k = "N" -> Integer(Cardinality(DOMAIN objs))
          [] k = "First" -> Integer(FirstOffset(objs))]

ToStreamObjectResult(objs, level) ==
    LET content == BuildStreamContent(objs)
        dict == StreamDict(objs)
    IN  IF level > 0
        THEN [dict |-> DictSet(dict, "Filter", Name(TextFlateDecode)),
              content |-> ZlibEncode(CompressionOf(level), content)]
        ELSE [dict |-> dict, content |-> content]

ToStreamObject ==
    /\ phase = "container"
    /\ phase' = "finalized"
    /\ raw' = BuildStreamContent(objects)
    /\ stream' = ToStreamObjectResult(objects, compression_level)
    /\ op' = "to_stream_object"
    /\ result' = "Ok"
    /\ UNCHANGED <<builder, objects, max_objects, compression_level, arg,
                   calls, accepted, used, decoded, dvars, avars>>


(***************************************************************************)
(* ObjectStream::new, the decoder.                                         *)
(***************************************************************************)
\* Stream::decompress, whose error ObjectStream::new drops: a FlateDecode
\* stream that inflates gets the data as content and loses its Filter.
Decompress(s) ==
    IF /\ "Filter" \in DOMAIN s.dict
       /\ s.dict["Filter"] = Name(TextFlateDecode)
       /\ ZlibDecode(s.content).ok
    THEN [dict |-> DictRemove(s.dict, "Filter"), content |-> ZlibDecode(s.content).data]
    ELSE s

\* dict.get(key).and_then(Object::as_i64)
GetI64(dict, key) ==
    IF key \notin DOMAIN dict THEN [ok |-> FALSE, err |-> "DictKey", val |-> 0]
    ELSE IF dict[key].kind # "Integer" THEN [ok |-> FALSE, err |-> "ObjectType", val |-> 0]
    ELSE [ok |-> TRUE, err |-> "none", val |-> dict[key].int]

\* i64 to usize by try_into: usize is 64 bits wide, every i64 >= 0 fits.
FitsUsize(v) == v >= 0

\* std::str::from_utf8(bytes).is_ok(), from position i on.
IsContinuation(bytes, i) == i <= Len(bytes) /\ bytes[i] >= 128 /\ bytes[i] <= 191

RECURSIVE Utf8Valid(_, _)
Utf8Valid(bytes, i) ==
    IF i > Len(bytes) THEN TRUE
    ELSE IF bytes[i] < 128 THEN Utf8Valid(bytes, i + 1)
    ELSE IF bytes[i] >= 194 /\ bytes[i] <= 223
        THEN IsContinuation(bytes, i + 1) /\ Utf8Valid(bytes, i + 2)
    ELSE IF bytes[i] >= 224 /\ bytes[i] <= 239
        THEN /\ IsContinuation(bytes, i + 1) /\ IsContinuation(bytes, i + 2)
             /\ (bytes[i] = 224 => bytes[i + 1] >= 160)
             /\ (bytes[i] = 237 => bytes[i + 1] <= 159)
             /\ Utf8Valid(bytes, i + 3)
    ELSE IF bytes[i] >= 240 /\ bytes[i] <= 244
        THEN /\ IsContinuation(bytes, i + 1) /\ IsContinuation(bytes, i + 2)
             /\ IsContinuation(bytes, i + 3)
             /\ (bytes[i] = 240 => bytes[i + 1] >= 144)
             /\ (bytes[i] = 244 => bytes[i + 1] <= 143)
             /\ Utf8Valid(bytes, i + 4)
    ELSE FALSE

\* str::split_whitespace, on text whose whitespace is one-byte characters.
RECURSIVE SplitWhitespace(_, _, _)
SplitWhitespace(bytes, i, token) ==
    IF i > Len(bytes) THEN (IF token = <<>> THEN <<>> ELSE <<token>>)
    ELSE IF IsWhitespace(bytes[i])
        THEN (IF token = <<>> THEN <<>> ELSE <<token>>) \o SplitWhitespace(bytes, i + 1, <<>>)
    ELSE SplitWhitespace(bytes, i + 1, Append(token, bytes[i]))

None == [some |-> FALSE, val |-> 0]

Some(v) == [some |-> TRUE, val |-> v]

\* u32::from_str(token).ok(): an optional '+' and digits; tokens of more
\* than nine digits do not occur in the model.
ParseU32(token) ==
    LET start == IF token # <<>> /\ token[1] = 43 THEN 2 ELSE 1
    IN  IF /\ Len(token) >= start
           /\ Len(token) - start + 1 <= 9
           /\ \A i \in start..Len(token) : IsDigit(token[i])
        THEN Some(DigitsValue(token, start, Len(token) + 1, 0))
        ELSE None

Numbers(index_block) ==
    LET tokens == SplitWhitespace(index_block, 1, <<>>)
    IN  [i \in 1..Len(tokens) |-> ParseU32(tokens[i])]

\* The header decoded with a wrong N an error instead of a warning.
DecodeHeader_StrictCount(s0) ==
    LET s == Decompress(s0)
        first == GetI64(s.dict, "First")
        n == GetI64(s.dict, "N")
        index_block == SubSeq(s.content, 1, first.val)
        hdr(status, err, first_offset, numbers) ==
            [status |-> status, err |-> err, content |-> s.content,
             first_offset |-> first_offset, numbers |-> numbers]
    IN  IF s.content = <<>> THEN hdr("empty", "none", 0, <<>>)
        ELSE IF ~first.ok THEN hdr("err", first.err, 0, <<>>)
        ELSE IF ~FitsUsize(first.val) THEN hdr("err", "NumericCast", 0, <<>>)
        ELSE IF first.val > Len(s.content) THEN hdr("err", "InvalidOffset", 0, <<>>)
        ELSE IF ~Utf8Valid(index_block, 1) THEN hdr("err", "InvalidObjectStream", 0, <<>>)
        ELSE IF ~n.ok THEN hdr("err", n.err, 0, <<>>)
        ELSE IF Len(Numbers(index_block)) # 2 * n.val THEN hdr("err", "InvalidObjectStream", 0, <<>>)
        ELSE hdr("pairs", "none", first.val, Numbers(index_block))

\* Lines 42-73: everything before the pairs are decoded.  status is
\* "empty" (Ok with no objects), "err" or "pairs".
DecodeHeader(s0) ==
    LET s == Decompress(s0)
        first == GetI64(s.dict, "First")
        n == GetI64(s.dict, "N")
        index_block == SubSeq(s.content, 1, first.val)
        hdr(status, err, first_offset, numbers) ==
            [status |-> status, err |-> err, content |-> s.content,
             first_offset |-> first_offset, numbers |-> numbers]
    IN  IF s.content = <<>> THEN hdr("empty", "none", 0, <<>>)
        ELSE IF ~first.ok THEN hdr("err", first.err, 0, <<>>)
        ELSE IF ~FitsUsize(first.val) THEN hdr("err", "NumericCast", 0, <<>>)
        ELSE IF first.val > Len(s.content) THEN hdr("err", "InvalidOffset", 0, <<>>)
        ELSE IF ~Utf8Valid(index_block, 1) THEN hdr("err", "InvalidObjectStream", 0, <<>>)
        ELSE IF ~n.ok THEN hdr("err", n.err, 0, <<>>)
        ELSE hdr("pairs", "none", first.val, Numbers(index_block))

NoHeader == [status |-> "none", err |-> "none", content |-> <<>>, first_offset |-> 0, numbers |-> <<>>]

\* let len = numbers.len() / 2 * 2, as a number of pairs.
PairCount(numbers) == Len(numbers) \div 2

\* chunks_filter_map on the k-th pair: None, or Some(((id, 0), object)).
NoEntry == [some |-> FALSE, id |-> <<0, 0>>, obj |-> Null]

ChunksFilterMap(content, first_offset, numbers, k) ==
    LET id == numbers[2 * k - 1]
        rel == numbers[2 * k]
        offset == first_offset + rel.val
        object == DirectObject(content, offset + 1)
    IN  IF ~id.some \/ ~rel.some THEN NoEntry
        ELSE IF offset >= Len(content) THEN NoEntry
        ELSE IF ~object.ok THEN NoEntry
        ELSE [some |-> TRUE, id |-> <<id.val, 0>>, obj |-> object.obj]

\* collect() into a BTreeMap: the entries are inserted in the order of the
\* pairs, a later entry of a key replacing an earlier one.
RECURSIVE Collect(_, _)
Collect(entries, k) ==
    IF k = 0 THEN EmptyMap
    ELSE IF entries[k].some THEN Insert(Collect(entries, k - 1), entries[k].id, entries[k].obj)
    ELSE Collect(entries, k - 1)

\* The decoder without the rayon feature: chunks(2).filter_map().collect().
ObjectStreamNew(s) ==
    LET h == DecodeHeader(s)
        entries == [k \in 1..PairCount(h.numbers) |->
                        ChunksFilterMap(h.content, h.first_offset, h.numbers, k)]
    IN  IF h.status = "empty" THEN Ok(EmptyMap)
        ELSE IF h.status = "err" THEN Err(h.err)
        ELSE Ok(Collect(entries, Len(entries)))

Decode ==
    /\ phase = "finalized"
    /\ phase' = "decoded"
    /\ decoded' = ObjectStreamNew(stream)
    /\ op' = "new"
    /\ UNCHANGED <<builder, objects, max_objects, compression_level, arg, result,
                   calls, accepted, used, raw, stream, dvars, avars>>

(***************************************************************************)
(* The builder's life: configure, build, add objects, finalize, decode.    *)
(***************************************************************************)
BuilderInit ==
    /\ phase = "builder"
    /\ builder = DefaultBuilder
    /\ objects = EmptyMap
    /\ max_objects = DefaultBuilder.max_objects
    /\ compression_level = DefaultBuilder.compression_level
    /\ op = "builder"
    /\ arg = NoArg
    /\ result = "Ok"
    /\ calls = 0
    /\ accepted = 0
    /\ used = {}
    /\ raw = <<>>
    /\ stream = NoStream
    /\ decoded = NoResult

DecoderIdle ==
    /\ dpc = "idle"
    /\ input = NoStream
    /\ header = NoHeader
    /\ slots = <<>>
    /\ order = <<>>
    /\ dresult = NoResult

AnalyzerIdle ==
    /\ apc = "idle"
    /\ doc = EmptyMap
    /\ trailer = EmptyDict
    /\ non_compressible = {}
    /\ changed = FALSE
    /\ query = <<0, 0>>
    /\ answer = FALSE

Init == BuilderInit /\ DecoderIdle /\ AnalyzerIdle

Next ==
    \/ \E max \in MaxObjectsChoices : SetMaxObjects(max)
    \/ \E level \in CompressionLevels : SetCompressionLevel(level)
    \/ Build
    \/ \E id \in BuilderIds, obj \in StoredObjects \cup {StreamArgument} : AddObject(id, obj)
    \/ ToStreamObject
    \/ Decode

Spec == Init /\ [][Next]_vars

(***************************************************************************)
(* The decoder under the rayon feature: par_chunks(2).filter_map(          *)
(* chunks_filter_map).collect().  The pairs are decoded in any order, each *)
(* into its own slot; collect() merges the slots in the order of the       *)
(* pairs.                                                                  *)
(***************************************************************************)
Pending == [done |-> FALSE, entry |-> NoEntry]

Decoded(entry) == [done |-> TRUE, entry |-> entry]

\* Lines 42-73, and lines 44-50 and the error returns.
DecodeBegin ==
    /\ dpc = "start"
    /\ LET h == DecodeHeader(input)
       IN  /\ header' = h
           /\ slots' = [k \in 1..PairCount(h.numbers) |-> Pending]
           /\ \/ /\ h.status = "empty"
                 /\ dpc' = "done"
                 /\ dresult' = Ok(EmptyMap)
              \/ /\ h.status = "err"
                 /\ dpc' = "done"
                 /\ dresult' = Err(h.err)
              \/ /\ h.status = "pairs"
                 /\ dpc' = "pairs"
                 /\ dresult' = dresult
    /\ UNCHANGED <<input, order, bvars, avars>>

\* One call of chunks_filter_map, on pair k.
ParsePair(k) ==
    /\ dpc = "pairs"
    /\ ~slots[k].done
    /\ slots' = [slots EXCEPT ![k] =
                    Decoded(ChunksFilterMap(header.content, header.first_offset, header.numbers, k))]
    /\ order' = Append(order, k)
    /\ UNCHANGED <<dpc, input, header, dresult, bvars, avars>>

\* collect() merging what the pairs yielded in the order in which the
\* pairs happened to be decoded.
ParCollect_CompletionOrder(entries, completion) ==
    Collect([i \in 1..Len(completion) |-> entries[completion[i]].entry], Len(completion))

\* rayon's collect() into a BTreeMap: the items are extended into the map
\* in the order of the pairs, whatever the order they were decoded in.
ParCollect(entries, completion) ==
    Collect([k \in 1..Len(entries) |-> entries[k].entry], Len(entries))

CollectPairs ==
    /\ dpc = "pairs"
    /\ \A k \in 1..Len(slots) : slots[k].done
    /\ dpc' = "done"
    /\ dresult' = Ok(ParCollect(slots, order))
    /\ UNCHANGED <<input, header, slots, order, bvars, avars>>

(***************************************************************************)
(* The streams the decoder is given: a dictionary and a content made of an *)
(* index block of tokens and a body, deflated or not.                      *)
(***************************************************************************)
IdTokens == {<<53>>, <<54>>, <<120>>}

OffsetTokens == {<<48>>, <<50>>, <<53>>}

IndexTokens(n) ==
    {t \in [1..n -> IdTokens \cup OffsetTokens] :
        \A i \in 1..n : t[i] \in (IF i % 2 = 1 THEN IdTokens ELSE OffsetTokens)}

RECURSIVE IndexText(_, _)
IndexText(tokens, i) ==
    IF i > Len(tokens) THEN <<>> ELSE tokens[i] \o SP \o IndexText(tokens, i + 1)

Bodies == {<<>>, <<55>> \o SP \o TextNull \o SP, <<255>>}

\* The values First may have for a content with an index block of `index`
\* bytes: absent, not an integer, negative, right, the whole content, beyond.
DictShapes(index, content) ==
    LET with(first, n) ==
            [k \in {"Type"} \cup (IF first = Null THEN {} ELSE {"First"})
                            \cup (IF n = Null THEN {} ELSE {"N"}) |->
                CASE k = "Type" -> Name(TextObjStm)
                  [] k = "First" -> first
                  [] k = "N" -> n]
    IN  {with(Integer(index), Integer(1)),
         with(Integer(index), Null),
         with(Integer(index), Name(<<78>>)),
         with(Null, Integer(1)),
         with(Name(<<70>>), Integer(1)),
         with(Integer(-1), Integer(1)),
         with(Integer(content), Integer(1)),
         with(Integer(content + 1), Integer(1))}

DecoderInputs(max_tokens) ==
    UNION {
        LET content == IndexText(tokens, 1) \o body
        IN  UNION { {[dict |-> dict, content |-> content],
                     [dict |-> DictSet(dict, "Filter", Name(TextFlateDecode)),
                      content |-> ZlibEncode("default", content)]} :
                    dict \in DictShapes(Len(IndexText(tokens, 1)), Len(content)) }
        : tokens \in UNION {IndexTokens(n) : n \in 0..max_tokens}, body \in Bodies }

DecoderInit ==
    /\ dpc = "start"
    /\ input \in DecoderInputs(MaxIndexTokens)
    /\ header = NoHeader
    /\ slots = <<>>
    /\ order = <<>>
    /\ dresult = NoResult

InitDecode == BuilderInit /\ DecoderInit /\ AnalyzerIdle

NextDecode ==
    \/ DecodeBegin
    \/ \E k \in 1..Len(slots) : ParsePair(k)
    \/ CollectPairs

SpecDecode == InitDecode /\ [][NextDecode]_vars

(***************************************************************************)
(* The reference collector: collect_all_references and                     *)
(* collect_references_recursive.                                           *)
(***************************************************************************)
RECURSIVE CollectReferencesRecursive(_)
CollectReferencesRecursive(obj) ==
    CASE obj.kind = "Reference" -> {obj.id}
      [] obj.kind = "Array" ->
            UNION {CollectReferencesRecursive(obj.items[i]) : i \in 1..Len(obj.items)}
      [] obj.kind = "Dictionary" ->
            UNION {CollectReferencesRecursive(obj.dict[key]) : key \in DOMAIN obj.dict}
      [] obj.kind = "Stream" ->
            UNION {CollectReferencesRecursive(obj.dict[key]) : key \in DOMAIN obj.dict}
      [] OTHER -> {}

CollectAllReferences(obj) == CollectReferencesRecursive(obj)

(***************************************************************************)
(* find_all_non_compressible_objects.                                      *)
(***************************************************************************)
NonCompressibleTypes == {TextPage, TextPages, TextCatalog, TextXRef, TextObjStm}

\* Phase 1's is_non_compressible for the object id of the document.
IsNonCompressible(d, t, id) ==
    \/ d[id].kind = "Stream"
    \/ /\ d[id].kind = "Dictionary"
       /\ "Type" \in DOMAIN d[id].dict
       /\ d[id].dict["Type"].kind = "Name"
       /\ d[id].dict["Type"].name \in NonCompressibleTypes
    \/ \E key \in DOMAIN t : t[key] = Reference(id)

Phase1 ==
    /\ apc = "phase1"
    /\ non_compressible' = {id \in DOMAIN doc : IsNonCompressible(doc, trailer, id)}
    /\ changed' = TRUE
    /\ apc' = "phase2"
    /\ UNCHANGED <<doc, trailer, query, answer, bvars, dvars>>

\* Document::get_object: the object of an id the document holds.
GetObject(d, id) == IF id \in DOMAIN d THEN [ok |-> TRUE, obj |-> d[id]] ELSE [ok |-> FALSE, obj |-> Null]

\* A pass that does not test whether the referenced id is marked already.
NewlyNonCompressible_NoMembershipTest(d, marked) ==
    {ref_id \in UNION {CollectAllReferences(GetObject(d, nc_id).obj) :
                        nc_id \in {id \in marked : GetObject(d, id).ok}} :
        ref_id \in DOMAIN d}

\* A pass that follows the references of no object.
NewlyNonCompressible_NoPropagation(d, marked) == {}

\* One pass of the loop: newly_non_compressible, as a set.
NewlyNonCompressible(d, marked) ==
    {ref_id \in UNION {CollectAllReferences(GetObject(d, nc_id).obj) :
                        nc_id \in {id \in marked : GetObject(d, id).ok}} :
        ref_id \notin marked /\ ref_id \in DOMAIN d}

Phase2Pass ==
    /\ apc = "phase2"
    /\ changed
    /\ changed' = (NewlyNonCompressible(doc, non_compressible) # {})
    /\ non_compressible' = non_compressible \cup NewlyNonCompressible(doc, non_compressible)
    /\ UNCHANGED <<apc, doc, trailer, query, answer, bvars, dvars>>

FindReturn ==
    /\ apc = "phase2"
    /\ ~changed
    /\ apc' = "returned"
    /\ UNCHANGED <<doc, trailer, non_compressible, changed, query, answer, bvars, dvars>>

\* can_be_compressed(id, _, doc), given the set find_all returned.
CanBeCompressed(id) ==
    /\ apc = "returned"
    /\ query' = id
    /\ answer' = (id \notin non_compressible)
    /\ apc' = "answered"
    /\ UNCHANGED <<doc, trailer, non_compressible, changed, bvars, dvars>>

(***************************************************************************)
(* The documents the analyzer is given.                                    *)
(***************************************************************************)
DocIds == {<<1, 0>>, <<2, 0>>, <<3, 0>>}

DanglingId == <<9, 0>>

RefTargets == DocIds \cup {DanglingId}

OneEntry(key, value) == [k \in {key} |-> value]

TwoEntries(k1, v1, k2, v2) == [k \in {k1, k2} |-> IF k = k1 THEN v1 ELSE v2]

DocObjects ==
    {Integer(7),
     Dictionary(OneEntry("Type", Name(TextCatalog))),
     Dictionary(OneEntry("Type", Name(TextPages))),
     Dictionary(OneEntry("Type", Name(TextXRef))),
     Dictionary(OneEntry("Type", Name(TextObjStm))),
     Dictionary(OneEntry("Type", Integer(1)))}
    \cup {Reference(r) : r \in RefTargets}
    \cup {Array(<<Integer(1), Array(<<Reference(r)>>)>>) : r \in RefTargets}
    \cup {Dictionary(TwoEntries("Type", Name(TextPage), "Parent", Reference(r))) : r \in RefTargets}
    \cup {Dictionary(TwoEntries("Type", Name(TextFont), "Desc", Array(<<Reference(r)>>))) : r \in RefTargets}
    \cup {StreamObject(OneEntry("Res", Reference(r)), <<120>>) : r \in {<<2, 0>>, DanglingId}}

Trailers ==
    {EmptyDict,
     OneEntry("Root", Reference(<<1, 0>>)),
     OneEntry("Root", Reference(DanglingId)),
     OneEntry("ID", Array(<<Reference(<<2, 0>>)>>)),
     TwoEntries("Root", Reference(<<1, 0>>), "Info", Reference(<<3, 0>>))}

Documents(ids) == UNION {[present -> DocObjects] : present \in SUBSET ids}

AnalyzerInit ==
    /\ apc = "phase1"
    /\ doc \in Documents(DocIds)
    /\ trailer \in Trailers
    /\ non_compressible = {}
    /\ changed = FALSE
    /\ query = <<0, 0>>
    /\ answer = FALSE

InitAnalyzer == BuilderInit /\ DecoderIdle /\ AnalyzerInit

NextAnalyzer ==
    \/ Phase1
    \/ Phase2Pass
    \/ FindReturn
    \/ \E id \in RefTargets : CanBeCompressed(id)

SpecAnalyzer == InitAnalyzer /\ [][NextAnalyzer]_vars

\* The analyzer runs to its end: a call that can take a step takes it.
FairAnalyzer == SpecAnalyzer /\ WF_vars(NextAnalyzer)

(***************************************************************************)
(* Properties of the builder, checked under Spec.                          *)
(***************************************************************************)
Finalized == phase \in {"finalized", "decoded"}

EntrySet(map) == {<<id, map[id]>> : id \in DOMAIN map}

Min(a, b) == IF a < b THEN a ELSE b

First == stream.dict["First"].int

\* The sorted entries of the container and their serialized sizes.
SortedEntries == SortedIds(DOMAIN objects)

SizeOf(i) == Len(WriteObject(objects[SortedEntries[i]]))

\* No two stored ids have the same object number.
DistinctNumbers == \A a, b \in DOMAIN objects : a[1] = b[1] => a = b

\* C1 as stated: a container built by successful add_object calls (any
\* object numbers and generations) and finalized at any compression level
\* decodes to the original entries with every generation replaced by 0, as
\* many as were stored.
C1_RoundTripAnyIds ==
    phase = "decoded" =>
        /\ decoded.ok
        /\ EntrySet(decoded.objects) = {<<<<id[1], 0>>, objects[id]>> : id \in DOMAIN objects}
        /\ Cardinality(DOMAIN decoded.objects) = Cardinality(DOMAIN objects)

\* C1 amended: the same, for containers whose stored ids have pairwise
\* distinct object numbers (generations arbitrary).
C1_RoundTrip ==
    (phase = "decoded" /\ DistinctNumbers) =>
        /\ decoded.ok
        /\ EntrySet(decoded.objects) = {<<<<id[1], 0>>, objects[id]>> : id \in DOMAIN objects}
        /\ Cardinality(DOMAIN decoded.objects) = Cardinality(DOMAIN objects)

\* A compressed container of two objects, one of generation 1, decoded.
C1_Witness ==
    /\ phase = "decoded"
    /\ DOMAIN objects = {<<1, 1>>, <<12, 0>>}
    /\ objects[<<1, 1>>] # objects[<<12, 0>>]
    /\ compression_level > 0
    /\ DOMAIN decoded.objects = {<<1, 0>>, <<12, 0>>}

\* C2 as stated: of the add_object calls with non-Stream objects, whatever
\* ids they pass, exactly the first max_objects are accepted, and
\* object_count never exceeds max_objects.
C2_CapacityAnyIds ==
    phase # "builder" =>
        /\ accepted = Min(calls, max_objects)
        /\ object_count <= max_objects

\* C2 amended: when the ids passed are pairwise distinct, exactly the first
\* max_objects calls are accepted and a later one returns the capacity
\* error; object_count never exceeds max_objects, whatever the ids.
C2_CapacityDistinctIds ==
    phase # "builder" =>
        /\ object_count <= max_objects
        /\ calls = Cardinality(used) => accepted = Min(calls, max_objects)
        /\ (/\ calls = Cardinality(used)
            /\ calls > max_objects
            /\ op = "add_object"
            /\ arg.obj.kind # "Stream") => result = "ErrCapacity"

C2_Witness ==
    /\ max_objects = 2
    /\ calls = 3
    /\ Cardinality(used) = 3
    /\ accepted = 2
    /\ op = "add_object"
    /\ result = "ErrCapacity"

\* C3: add_object with a Stream object fails in every state, and an
\* add_object that returns an error leaves the mapping, object_count,
\* max_objects and the compression level as they were.
C3_RejectedAddChangesNothing ==
    [][op' = "add_object" =>
          /\ arg'.obj.kind = "Stream" => result' = "ErrStream"
          /\ result' # "Ok" =>
                /\ objects' = objects
                /\ object_count' = object_count
                /\ max_objects' = max_objects
                /\ compression_level' = compression_level]_vars

C3_Witness ==
    /\ op = "add_object"
    /\ arg.obj.kind = "Stream"
    /\ result = "ErrStream"
    /\ arg.id \in DOMAIN objects
    /\ object_count = max_objects
    /\ calls > accepted

\* C6 as stated: an empty container, whatever its configuration, finalizes
\* to a stream with content of length 0 and N = 0 that decodes to the empty
\* mapping.
C6_EmptyFinalizeAnyLevel ==
    (Finalized /\ objects = EmptyMap) =>
        /\ Len(stream.content) = 0
        /\ stream.dict["N"] = Integer(0)
        /\ phase = "decoded" => decoded = Ok(EmptyMap)

\* C6 amended: for an empty container the content built by
\* build_stream_content has length 0 and N is 0; the stream's content is
\* that empty content at level 0 and its non-empty deflate encoding, under
\* the FlateDecode filter, at any other level; it decodes to the empty
\* mapping.
C6_EmptyFinalize ==
    (Finalized /\ objects = EmptyMap) =>
        /\ Len(raw) = 0
        /\ stream.dict["N"] = Integer(0)
        /\ compression_level = 0 => (stream.content = <<>> /\ "Filter" \notin DOMAIN stream.dict)
        /\ compression_level > 0 =>
              /\ "Filter" \in DOMAIN stream.dict
              /\ stream.dict["Filter"] = Name(TextFlateDecode)
              /\ Len(stream.content) > 0
              /\ ZlibDecode(stream.content) = [ok |-> TRUE, data |-> raw]
        /\ phase = "decoded" => decoded = Ok(EmptyMap)

C6_Witness ==
    /\ phase = "decoded"
    /\ objects = EmptyMap
    /\ compression_level = 6
    /\ op = "new"

\* C7: for every finalized container, the empty one included, First is the
\* byte length of the index block that starts the raw content, so First
\* does not exceed the raw content's length and the first object's bytes
\* start at position First.
C7_FirstMatchesContent ==
    Finalized =>
        /\ First = Len(raw) - Len(Body(objects, SortedEntries, 1))
        /\ First <= Len(raw)
        /\ objects # EmptyMap =>
              SubSeq(raw, First + 1, First + SizeOf(1)) = WriteObject(objects[SortedEntries[1]])

\* C10: in the raw content of a non-empty container the index lists the
\* entries in ascending ObjectId order, the first offset is 0, each next
\* offset is the previous one plus the previous object's serialized length
\* plus one, and each object's bytes stand at its offset in the body.
C10_OffsetMonotonicity ==
    (Finalized /\ objects # EmptyMap) =>
        LET index == Numbers(SubSeq(raw, 1, First))
            n == Len(SortedEntries)
        IN  /\ Len(index) = 2 * n
            /\ \A i \in 1..n : index[2 * i - 1] = Some(SortedEntries[i][1])
            /\ \A i \in 1..(n - 1) : IdLess(SortedEntries[i], SortedEntries[i + 1])
            /\ index[2] = Some(0)
            /\ \A i \in 1..(n - 1) : index[2 * (i + 1)] = Some(index[2 * i].val + SizeOf(i) + 1)
            /\ \A i \in 1..n :
                  SubSeq(raw, First + index[2 * i].val + 1, First + index[2 * i].val + SizeOf(i))
                      = WriteObject(objects[SortedEntries[i]])

C10_Witness ==
    /\ phase = "finalized"
    /\ DOMAIN objects = BuilderIds
    /\ objects[<<1, 0>>] # objects[<<1, 1>>]
    /\ SizeOf(1) # SizeOf(2)

(***************************************************************************)
(* Properties of the decoder, checked under SpecDecode.                    *)
(***************************************************************************)
IsInteger(dict, key) == key \in DOMAIN dict /\ dict[key].kind = "Integer"

\* The three structural conditions, on the stream as decompressed.
FirstDoesNotFit(s) == IsInteger(s.dict, "First") /\ s.dict["First"].int < 0

FirstExceedsContent(s) == IsInteger(s.dict, "First") /\ s.dict["First"].int > Len(s.content)

IndexNotUtf8(s) ==
    /\ IsInteger(s.dict, "First")
    /\ s.dict["First"].int >= 0
    /\ s.dict["First"].int <= Len(s.content)
    /\ ~Utf8Valid(SubSeq(s.content, 1, s.dict["First"].int), 1)

\* C5 as stated: on a stream with non-empty content ObjectStream::new
\* returns an error only when First does not fit, First exceeds the
\* content's length or the index block is not UTF-8, whatever N is.
C5_OnlyStructuralErrors ==
    (dpc = "done" /\ input.content # <<>> /\ ~dresult.ok) =>
        LET s == Decompress(input)
        IN  FirstDoesNotFit(s) \/ FirstExceedsContent(s) \/ IndexNotUtf8(s)

\* C5 amended: on a stream with non-empty content ObjectStream::new returns
\* an error exactly when the decompressed content is not empty and First or
\* N is missing or not an integer, First does not fit, First exceeds the
\* content's length or the index block is not UTF-8; otherwise it returns
\* Ok, whatever the tokens, the offsets and the value of N.
C5_DecodeErrors ==
    (dpc = "done" /\ input.content # <<>>) =>
        LET s == Decompress(input)
        IN  ~dresult.ok <=>
                /\ s.content # <<>>
                /\ \/ ~IsInteger(s.dict, "First")
                   \/ ~IsInteger(s.dict, "N")
                   \/ FirstDoesNotFit(s)
                   \/ FirstExceedsContent(s)
                   \/ IndexNotUtf8(s)

\* An Ok decode of a stream whose N is wrong, with a hole among the tokens,
\* an offset out of bounds or an object that does not parse.
C5_Witness ==
    /\ dpc = "done"
    /\ dresult.ok
    /\ Len(header.numbers) = 4
    /\ header.numbers[1] = None
    /\ slots[2].done /\ ~slots[2].entry.some
    /\ input.dict["N"] = Integer(1)

\* C8: the mapping ObjectStream::new returns is the same for every order in
\* which the pairs are decoded, also when an object number occurs in more
\* than one pair: it is what decoding the pairs one after the other gives;
\* and decoding a pair writes that pair's slot alone.
C8_OrderIndependent ==
    /\ [](dpc = "done" => dresult = ObjectStreamNew(input))
    /\ [][dpc' = "pairs" /\ dpc = "pairs" =>
            \E k \in 1..Len(slots) :
                /\ ~slots[k].done
                /\ \A j \in 1..Len(slots) : j # k => slots'[j] = slots[j]]_vars

\* The second pair decoded before the first, both yielding the same object
\* number with different objects.
C8_Witness ==
    /\ dpc = "done"
    /\ order = <<2, 1>>
    /\ slots[1].entry.some /\ slots[2].entry.some
    /\ slots[1].entry.id = slots[2].entry.id
    /\ slots[1].entry.obj # slots[2].entry.obj
    /\ dresult = Ok(slots[2].entry.id :> slots[2].entry.obj)

(***************************************************************************)
(* Properties of the analyzer, checked under SpecAnalyzer and              *)
(* FairAnalyzer.                                                           *)
(***************************************************************************)
Present == DOMAIN doc

\* The Phase-1 seed: the document's Stream objects, its dictionaries of a
\* structural type, and its ids that are the value of a trailer entry.
Seed == {id \in Present : IsNonCompressible(doc, trailer, id)}

\* b is referenced by the document's object a.
Refers(a, b) == a \in Present /\ b \in CollectAllReferences(doc[a])

\* The document's ids reachable from the seed along references between
\* objects of the document.
Paths == UNION {[1..n -> Present] : n \in 1..Cardinality(DocIds)}

Reachable ==
    LET seed == Seed
        edges == {e \in Present \X Present : Refers(e[1], e[2])}
    IN  {id \in Present :
            \E p \in Paths :
                /\ p[1] \in seed
                /\ p[Len(p)] = id
                /\ \A i \in 1..(Len(p) - 1) : <<p[i], p[i + 1]>> \in edges}

AnalyzerDone == apc \in {"returned", "answered"}

\* C4: the set find_all_non_compressible_objects returns is exactly the set
\* of the document's ids reachable from the Phase-1 seed; it contains the
\* seed, no marked object references an unmarked object of the document,
\* no dangling id and no unreachable id is in it; can_be_compressed(id) is
\* true iff id is not in it.
C4_Closure ==
    AnalyzerDone =>
        LET reachable == Reachable
        IN  /\ non_compressible = reachable
            /\ Seed \subseteq non_compressible
            /\ \A a \in non_compressible, b \in Present : Refers(a, b) => b \in non_compressible
            /\ non_compressible \subseteq Present
            /\ apc = "answered" => (answer <=> query \notin reachable)

\* Object 3 is marked through 1 and 2 alone, a dangling id is referenced by
\* a marked object, and the query is about an unmarked object.
C4_Witness ==
    /\ apc = "answered"
    /\ Present = DocIds
    /\ Seed = {<<1, 0>>}
    /\ Refers(<<1, 0>>, <<2, 0>>) /\ Refers(<<2, 0>>, <<3, 0>>) /\ ~Refers(<<1, 0>>, <<3, 0>>)
    /\ Refers(<<3, 0>>, DanglingId)
    /\ non_compressible = DocIds
    /\ query = DanglingId
    /\ answer

\* C9: on every document, cyclic, self-referencing or with dangling
\* references, the Phase-2 loop comes to a pass that adds no mark and
\* returns; a pass that is not the last strictly enlarges the set of marks,
\* the last leaves it as it is, and the set stays within the document's ids.
C9_Termination ==
    /\ <>AnalyzerDone
    /\ [](non_compressible \subseteq Present)
    /\ [][(apc = "phase2" /\ apc' = "phase2") =>
            /\ changed' => (non_compressible \subseteq non_compressible'
                            /\ non_compressible # non_compressible')
            /\ ~changed' => non_compressible' = non_compressible]_vars

\* A returned analysis of a document with a cycle between 1 and 2, a
\* self-reference of 3 and a seed outside the cycle.
C9_Witness ==
    /\ apc = "returned"
    /\ Refers(<<1, 0>>, <<2, 0>>) /\ Refers(<<2, 0>>, <<1, 0>>)
    /\ Refers(<<3, 0>>, <<3, 0>>)
    /\ non_compressible = {<<1, 0>>, <<2, 0>>}
    /\ Seed = {<<1, 0>>}

=============================================================================
